---- MODULE Spec2Model ----
(***************************************************************************)
(* Consul catalog provider: translation of a batch of catalog entries into *)
(* dynamic configuration (pkg/provider/consulcatalog/config.go).           *)
(*                                                                         *)
(* Go strings are modelled as sequences of one-character strings, so that  *)
(* concatenation (\o) and net.JoinHostPort are computed, not assumed.      *)
(***************************************************************************)
EXTENDS Integers, Sequences, FiniteSets, TLC

VARIABLES
    Constraints,     \* p.Constraints, the provider's constraint expression
    items,           \* the items argument of buildConfiguration
    idx,             \* position of the range loop over items (1-based)
    configurations,  \* the local map[string]*dynamic.Configuration
    outcome,         \* per visited entry: how its iteration ended
    pc,              \* "loop" | "merged" | "resolve" | "returned"
    mergeInput,      \* the mapping handed to provider.Merge
    resolver,        \* Resolve: which resolver is called ("tcp" | "http" | "none")
    item,            \* Resolve: the item argument
    given,           \* Resolve: the load balancer as it was when the call was made
    loadBalancer,    \* Resolve: the load balancer, mutated in place
    err              \* Resolve: the returned error

vars == <<Constraints, items, idx, configurations, outcome, pc, mergeInput,
          resolver, item, given, loadBalancer, err>>

batchVars == <<Constraints, items, idx, configurations, outcome, mergeInput>>
resolveVars == <<resolver, item, given, loadBalancer, err>>

----------------------------------------------------------------------------
(* Strings *)

Empty == <<>>
Dash == <<"-">>
Colon == <<":">>
P80 == <<"8", "0">>
P90 == <<"9", "0">>
HostA == <<"h">>
HostV6 == <<":", ":", "1">>
SchemeHTTP == <<"h", "t", "t", "p">>
SchemeHTTPS == <<"h", "t", "t", "p", "s">>
SchemeSep == <<":", "/", "/">>
OldURL == <<"o", "l", "d">>

HasColon(s) == \E i \in 1..Len(s) : s[i] = ":"

\* net.JoinHostPort: a host with a colon is taken to be an IPv6 literal.
JoinHostPort(host, port) ==
    IF HasColon(host)
    THEN <<"[">> \o host \o <<"]">> \o Colon \o port
    ELSE host \o Colon \o port

\* fmt.Sprintf("%s://%s", scheme, hostport)
SprintfURL(scheme, hostport) == scheme \o SchemeSep \o hostport

----------------------------------------------------------------------------
(* Errors *)

NoErr == "nil"
ErrLB == "load-balancer is not defined"
ErrPort == "port is missing"
ErrAddr == "address is missing"

----------------------------------------------------------------------------
(* dynamic.Server, dynamic.TCPServer and their load balancers.  A pointer  *)
(* to a load balancer is a record whose Nil field tells a nil pointer.     *)

NilLB == [Nil |-> TRUE, Servers |-> <<>>]
LB(servers) == [Nil |-> FALSE, Servers |-> servers]

\* dynamic.TCPServer{}
TCPServerZero == [Address |-> Empty, Port |-> Empty]

\* dynamic.Server{} followed by server.SetDefaults()
ServerDefaults == [URL |-> Empty, Scheme |-> SchemeHTTP, Port |-> Empty]

\* lb := &dynamic.TCPServersLoadBalancer{}; lb.SetDefaults()
TCPLBDefaults == LB(<<>>)

\* lb := &dynamic.ServersLoadBalancer{}; lb.SetDefaults()
LBDefaults == LB(<<>>)

----------------------------------------------------------------------------
(* Endpoint resolvers.  Both return the error and the load balancer as the *)
(* call leaves it (it is mutated in place, also on the error paths).       *)

\* addServerTCP without its check of item.Address
addServerTCPNoAddressCheck(it, lb) ==
    IF lb.Nil THEN [err |-> ErrLB, lb |-> lb]
    ELSE
      LET lb1 == IF Len(lb.Servers) = 0 THEN LB(<<TCPServerZero>>) ELSE lb
          port == IF it.Port # Empty THEN it.Port ELSE Empty
          lb2 == IF it.Port # Empty
                 THEN [lb1 EXCEPT !.Servers[1].Port = Empty] ELSE lb1
      IN  IF port = Empty THEN [err |-> ErrPort, lb |-> lb2]
          ELSE [err |-> NoErr,
                lb |-> [lb2 EXCEPT !.Servers[1].Address =
                                       JoinHostPort(it.Address, port)]]

addServerTCP(it, lb) ==
    IF lb.Nil THEN [err |-> ErrLB, lb |-> lb]
    ELSE
      LET lb1 == IF Len(lb.Servers) = 0 THEN LB(<<TCPServerZero>>) ELSE lb
          port == IF it.Port # Empty THEN it.Port ELSE Empty
          lb2 == IF it.Port # Empty
                 THEN [lb1 EXCEPT !.Servers[1].Port = Empty] ELSE lb1
      IN  IF port = Empty THEN [err |-> ErrPort, lb |-> lb2]
          ELSE IF it.Address = Empty THEN [err |-> ErrAddr, lb |-> lb2]
          ELSE [err |-> NoErr,
                lb |-> [lb2 EXCEPT !.Servers[1].Address =
                                       JoinHostPort(it.Address, port)]]

addServer(it, lb) ==
    IF lb.Nil THEN [err |-> ErrLB, lb |-> lb]
    ELSE
      LET port0 == IF Len(lb.Servers) > 0 THEN lb.Servers[1].Port ELSE Empty
          lb1 == IF Len(lb.Servers) = 0 THEN LB(<<ServerDefaults>>) ELSE lb
          port == IF it.Port # Empty THEN it.Port ELSE port0
          lb2 == IF it.Port # Empty
                 THEN [lb1 EXCEPT !.Servers[1].Port = Empty] ELSE lb1
      IN  IF port = Empty THEN [err |-> ErrPort, lb |-> lb2]
          ELSE IF it.Address = Empty THEN [err |-> ErrAddr, lb |-> lb2]
          ELSE [err |-> NoErr,
                lb |-> [lb2 EXCEPT
                          !.Servers[1].URL =
                              SprintfURL(lb2.Servers[1].Scheme,
                                         JoinHostPort(it.Address, port)),
                          !.Servers[1].Scheme = Empty]]

----------------------------------------------------------------------------
(* Maps (Go map[string]T) are functions whose domain is a set of strings.  *)

EmptyMap == [k \in {} |-> Empty]
Put(m, k, v) == [x \in (DOMAIN m) \cup {k} |-> IF x = k THEN v ELSE m[x]]
Orderings(S) ==
    {f \in [1..Cardinality(S) -> S] :
        \A i, j \in 1..Cardinality(S) : i # j => f[i] # f[j]}

\* service, router and middleware names used by the labels below
NameT == <<"t">>
NameW == <<"w">>
NameA == <<"a">>
NameB == <<"b">>
NameR == <<"r">>
NameQ == <<"q">>
NameM == <<"m">>

----------------------------------------------------------------------------
(* External collaborators                                                  *)

\* constraints.MatchTags(tags, expr): (matches, err)
ExprNone == ""
ExprProd == "Tag(prod)"
ExprMalformed == "Tag("
MatchTags(tags, expr) ==
    IF expr = ExprNone THEN [matches |-> TRUE, err |-> NoErr]
    ELSE IF expr = ExprProd THEN [matches |-> "prod" \in tags, err |-> NoErr]
    ELSE [matches |-> FALSE, err |-> "invalid expression"]

\* label.DecodeConfiguration(labels): (configuration, err).  A label set is
\* a set of the label keys below; every declared HTTP server carries the
\* default scheme unless the label sets one.
LabelTCPRouter == "traefik.tcp.routers.r.rule"
LabelTCPService == "traefik.tcp.services.t.loadbalancer.server.port=90"
LabelTCPNoLB == "traefik.tcp.services.w"
LabelRouter == "traefik.http.routers.q.rule"
LabelMiddleware == "traefik.http.middlewares.m"
LabelServicePort == "traefik.http.services.a.loadbalancer.server.port=90"
LabelServiceScheme == "traefik.http.services.b.loadbalancer.server.scheme=https"
LabelServiceNoLB == "traefik.http.services.w"
LabelBogus == "traefik.bogus"
LabelKeys ==
    {LabelTCPRouter, LabelTCPService, LabelTCPNoLB, LabelRouter, LabelMiddleware,
     LabelServicePort, LabelServiceScheme, LabelServiceNoLB, LabelBogus}

EmptyConf ==
    [TCP |-> [Routers |-> EmptyMap, Services |-> EmptyMap],
     HTTP |-> [Routers |-> EmptyMap, Middlewares |-> {}, Services |-> EmptyMap]]

DecodeTCPServices(labels) ==
    LET s1 == IF LabelTCPService \in labels
              THEN Put(EmptyMap, NameT,
                       [LoadBalancer |-> LB(<<[Address |-> Empty, Port |-> P90]>>)])
              ELSE EmptyMap
    IN  IF LabelTCPNoLB \in labels
        THEN Put(s1, NameW, [LoadBalancer |-> NilLB]) ELSE s1

DecodeHTTPServices(labels) ==
    LET s1 == IF LabelServicePort \in labels
              THEN Put(EmptyMap, NameA,
                       [LoadBalancer |->
                          LB(<<[URL |-> Empty, Scheme |-> SchemeHTTP, Port |-> P90]>>)])
              ELSE EmptyMap
        s2 == IF LabelServiceScheme \in labels
              THEN Put(s1, NameB,
                       [LoadBalancer |->
                          LB(<<[URL |-> Empty, Scheme |-> SchemeHTTPS, Port |-> Empty]>>)])
              ELSE s1
    IN  IF LabelServiceNoLB \in labels
        THEN Put(s2, NameW, [LoadBalancer |-> NilLB]) ELSE s2

DecodeConfiguration(labels) ==
    IF LabelBogus \in labels
    THEN [err |-> "decode error", conf |-> EmptyConf]
    ELSE [err |-> NoErr,
          conf |->
            [TCP |-> [Routers |-> IF LabelTCPRouter \in labels
                                  THEN Put(EmptyMap, NameR, [Service |-> Empty])
                                  ELSE EmptyMap,
                      Services |-> DecodeTCPServices(labels)],
             HTTP |-> [Routers |-> IF LabelRouter \in labels
                                   THEN Put(EmptyMap, NameQ, [Service |-> Empty])
                                   ELSE EmptyMap,
                       Middlewares |-> IF LabelMiddleware \in labels
                                       THEN {NameM} ELSE {},
                       Services |-> DecodeHTTPServices(labels)]]]

\* A router without a service is wired to the section's only service.
WireRouters(routers, services) ==
    [r \in DOMAIN routers |->
        IF routers[r].Service = Empty /\ Cardinality(DOMAIN services) = 1
        THEN [Service |-> CHOOSE s \in DOMAIN services : TRUE]
        ELSE routers[r]]

\* provider.BuildTCPRouterConfiguration(ctx, configuration)
BuildTCPRouterConfiguration(tcp) ==
    [tcp EXCEPT !.Routers = WireRouters(tcp.Routers, tcp.Services)]

\* provider.BuildRouterConfiguration(ctx, configuration, defaultRouterName, ...)
BuildRouterConfiguration(http, defaultRouterName) ==
    LET routers == IF DOMAIN http.Routers = {}
                      /\ Cardinality(DOMAIN http.Services) <= 1
                   THEN Put(EmptyMap, defaultRouterName, [Service |-> Empty])
                   ELSE http.Routers
    IN  [http EXCEPT !.Routers = WireRouters(routers, http.Services)]

\* provider.Merge receives the key -> fragment mapping.
Merge(confs) == confs

----------------------------------------------------------------------------
(* The provider's own functions                                            *)

HealthPassing == "passing"
HealthWarning == "warning"
HealthCritical == "critical"
HealthMaint == "maintenance"

\* keepContainer without its check of item.Status
keepContainerAnyHealth(it) ==
    IF ~it.ExtraConf.Enable THEN FALSE
    ELSE LET m == MatchTags(it.Tags, Constraints)
         IN  IF m.err # NoErr THEN FALSE
             ELSE IF ~m.matches THEN FALSE
             ELSE TRUE

keepContainer(it) ==
    IF ~it.ExtraConf.Enable THEN FALSE
    ELSE LET m == MatchTags(it.Tags, Constraints)
         IN  IF m.err # NoErr THEN FALSE
             ELSE IF ~m.matches THEN FALSE
             ELSE IF it.Status # HealthPassing /\ it.Status # HealthWarning
                  THEN FALSE
             ELSE TRUE

\* for name, service := range configuration.Services { addServerTCP(...) },
\* in the iteration order `order`, from its position i on
RECURSIVE rangeTCPServices(_, _, _, _)
rangeTCPServices(it, services, order, i) ==
    IF i > Len(order) THEN [err |-> NoErr, services |-> services]
    ELSE LET r == addServerTCP(it, services[order[i]].LoadBalancer)
             s2 == [services EXCEPT ![order[i]].LoadBalancer = r.lb]
         IN  IF r.err # NoErr THEN [err |-> r.err, services |-> s2]
             ELSE rangeTCPServices(it, s2, order, i + 1)

\* a range that resolves the first service only
rangeServicesFirstOnly(it, services, order, i) ==
    LET r == addServer(it, services[order[1]].LoadBalancer)
    IN  [err |-> r.err,
         services |-> [services EXCEPT ![order[1]].LoadBalancer = r.lb]]

RECURSIVE rangeServices(_, _, _, _)
rangeServices(it, services, order, i) ==
    IF i > Len(order) THEN [err |-> NoErr, services |-> services]
    ELSE LET r == addServer(it, services[order[i]].LoadBalancer)
             s2 == [services EXCEPT ![order[i]].LoadBalancer = r.lb]
         IN  IF r.err # NoErr THEN [err |-> r.err, services |-> s2]
             ELSE rangeServices(it, s2, order, i + 1)

\* svcName := item.Node + "-" + item.Name + "-" + item.ID
svcName(it) == it.Node \o Dash \o it.Name \o Dash \o it.ID

\* the default service named by the entry's key instead of its name
ServicesOfKeyed(it, configuration) ==
    IF DOMAIN configuration.Services = {}
    THEN Put(EmptyMap, svcName(it), [LoadBalancer |-> LBDefaults])
    ELSE configuration.Services

\* the services a completer ranges over: the declared ones, or the one it
\* synthesizes under the entry's name
TCPServicesOf(it, configuration) ==
    IF DOMAIN configuration.Services = {}
    THEN Put(EmptyMap, it.Name, [LoadBalancer |-> TCPLBDefaults])
    ELSE configuration.Services

ServicesOf(it, configuration) ==
    IF DOMAIN configuration.Services = {}
    THEN Put(EmptyMap, it.Name, [LoadBalancer |-> LBDefaults])
    ELSE configuration.Services

buildTCPServiceConfiguration(it, configuration, order) ==
    LET r == rangeTCPServices(it, TCPServicesOf(it, configuration), order, 1)
    IN  [err |-> r.err, conf |-> [configuration EXCEPT !.Services = r.services]]

buildServiceConfiguration(it, configuration, order) ==
    LET r == rangeServices(it, ServicesOf(it, configuration), order, 1)
    IN  [err |-> r.err, conf |-> [configuration EXCEPT !.Services = r.services]]

\* len(TCP.Routers) > 0 || len(TCP.Services) > 0
hasTCP(conf) == DOMAIN conf.TCP.Routers # {} \/ DOMAIN conf.TCP.Services # {}

\* the transport-layer-only branch never taken
httpNeverEmpty(conf) == FALSE

\* len(HTTP.Routers) == 0 && len(HTTP.Middlewares) == 0 && len(HTTP.Services) == 0
httpEmpty(conf) ==
    /\ DOMAIN conf.HTTP.Routers = {}
    /\ conf.HTTP.Middlewares = {}
    /\ DOMAIN conf.HTTP.Services = {}

\* `return` in the place of `continue`: the loop is left
returnFromLoop(i) == Len(items) + 1

\* `continue` after a skipped entry: the loop goes on with the next entry
continueLoop(i) == i + 1

\* the fragment is stored also when the application-layer completer fails
recordsOnHTTPError(out) == out \in {"tcp only", "recorded", "http error"}

\* configurations[svcName] = confFromLabel happens on these two ways out
recordsOn(out) == out \in {"tcp only", "recorded"}

\* One iteration of the loop of buildConfiguration on entry it, in the stages
\* below, last stage first.  Each stage gives how the iteration ends (out),
\* the error logged (err) and the fragment as built so far (conf).

\* h is what buildServiceConfiguration returned on fragment c1
afterServiceConfiguration(it, c1, h) ==
    IF h.err # NoErr
    THEN [out |-> "http error", err |-> h.err, conf |-> [c1 EXCEPT !.HTTP = h.conf]]
    ELSE [out |-> "recorded", err |-> NoErr,
          conf |-> [c1 EXCEPT !.HTTP = BuildRouterConfiguration(h.conf, it.Name)]]

\* c1 is the fragment after provider.BuildTCPRouterConfiguration
afterTCPRouterConfiguration(it, c1, ordH) ==
    IF httpEmpty(c1)
    THEN [out |-> "tcp only", err |-> NoErr, conf |-> c1]
    ELSE afterServiceConfiguration(it, c1,
             buildServiceConfiguration(it, c1.HTTP, ordH))

\* t is what buildTCPServiceConfiguration returned on fragment c0
afterTCPServiceConfiguration(it, c0, t, ordH) ==
    IF t.err # NoErr
    THEN [out |-> "tcp error", err |-> t.err, conf |-> [c0 EXCEPT !.TCP = t.conf]]
    ELSE afterTCPRouterConfiguration(it,
             [c0 EXCEPT !.TCP = BuildTCPRouterConfiguration(t.conf)], ordH)

\* d is what label.DecodeConfiguration returned
afterDecodeConfiguration(it, d, ordT, ordH) ==
    IF d.err # NoErr
    THEN [out |-> "decode error", err |-> d.err, conf |-> d.conf]
    ELSE IF hasTCP(d.conf)
    THEN afterTCPServiceConfiguration(it, d.conf,
             buildTCPServiceConfiguration(it, d.conf.TCP, ordT), ordH)
    ELSE afterServiceConfiguration(it, d.conf,
             buildServiceConfiguration(it, d.conf.HTTP, ordH))

\* ordT and ordH are the orders in which the two completers range over their
\* services
iteration(it, ordT, ordH) ==
    IF ~keepContainer(it)
    THEN [out |-> "filtered", err |-> NoErr, conf |-> EmptyConf]
    ELSE afterDecodeConfiguration(it, DecodeConfiguration(it.Labels), ordT, ordH)

\* the completers' possible iteration orders on entry it
OrdersTCP(it) ==
    Orderings(DOMAIN TCPServicesOf(it, DecodeConfiguration(it.Labels).conf.TCP))
OrdersHTTP(it) ==
    Orderings(DOMAIN ServicesOf(it, DecodeConfiguration(it.Labels).conf.HTTP))

----------------------------------------------------------------------------
(* Inputs                                                                  *)

MaxItems == 2
MaxLabels == 3
MaxServers == 2

Entry(node, name, id, addr, port, status, tags, labels, enable) ==
    [Node |-> node, Name |-> name, ID |-> id, Address |-> addr, Port |-> port,
     Status |-> status, Tags |-> tags, Labels |-> labels,
     ExtraConf |-> [Enable |-> enable]]

NodeN == <<"n">>
NodeNS == <<"n", "-", "s">>
NameS == <<"s">>
NameSS == <<"s", "-", "s">>
IdI == <<"i">>
IdJ == <<"j">>

Addresses == {Empty, HostA, HostV6}
Ports == {Empty, P80}
Statuses == {HealthPassing, HealthWarning, HealthCritical, HealthMaint}
TagSets == {{}, {"prod"}}
ConstraintExprs == {ExprNone, ExprProd, ExprMalformed}
LabelSets == {l \in SUBSET LabelKeys : Cardinality(l) <= MaxLabels}

\* every entry of one identity
SingleItems ==
    {Entry(NodeN, NameS, IdI, a, p, st, tg, l, en) :
        a \in Addresses, p \in Ports, st \in Statuses, tg \in TagSets,
        l \in LabelSets, en \in BOOLEAN}

\* the entries of the longer batches: four identities, two of them with the
\* same key, and one entry for each way an iteration can end
Identities ==
    {<<NodeN, NameS, IdI>>, <<NodeN, NameS, IdJ>>,
     <<NodeNS, NameS, IdI>>, <<NodeN, NameSS, IdI>>}
BatchShapes ==
    {<<HostA, P80, HealthPassing, {}>>,
     <<HostA, P80, HealthCritical, {}>>,
     <<HostA, Empty, HealthPassing, {}>>,
     <<HostV6, P80, HealthWarning, {LabelTCPRouter}>>,
     <<HostA, P80, HealthPassing, {LabelBogus}>>,
     <<HostA, P80, HealthPassing, {LabelTCPService, LabelServiceNoLB}>>}
BatchItems ==
    {Entry(i[1], i[2], i[3], s[1], s[2], s[3], {"prod"}, s[4], TRUE) :
        i \in Identities, s \in BatchShapes}

Batches ==
    {<<e>> : e \in SingleItems}
        \cup UNION {[1..n -> BatchItems] : n \in 0..MaxItems}

\* load balancers handed to the resolvers: nil, without servers, or with a
\* slot 0 of any content followed by further declared slots
OtherServer == [URL |-> OldURL, Scheme |-> Empty, Port |-> Empty]
OtherTCPServer == [Address |-> OldURL, Port |-> Empty]
Slots == [URL : {Empty, OldURL}, Scheme : {Empty, SchemeHTTP, SchemeHTTPS},
          Port : {Empty, P90}]
TCPSlots == [Address : {Empty, OldURL}, Port : {Empty, P90}]
LBs ==
    {NilLB, LB(<<>>)} \cup
    {LB(<<s>> \o [k \in 1..n |-> OtherServer]) : s \in Slots, n \in 0..(MaxServers - 1)}
TCPLBs ==
    {NilLB, LB(<<>>)} \cup
    {LB(<<s>> \o [k \in 1..n |-> OtherTCPServer]) :
        s \in TCPSlots, n \in 0..(MaxServers - 1)}
ResolveItems ==
    {Entry(NodeN, NameS, IdI, a, p, HealthPassing, {}, {}, TRUE) :
        a \in Addresses, p \in Ports}

NoItem == Entry(Empty, Empty, Empty, Empty, Empty, HealthPassing, {}, {}, FALSE)

----------------------------------------------------------------------------
(* buildConfiguration                                                      *)

Init ==
    /\ Constraints \in ConstraintExprs
    /\ items \in Batches
    /\ idx = 1
    /\ configurations = EmptyMap
    /\ outcome = <<>>
    /\ pc = "loop"
    /\ mergeInput = EmptyMap
    /\ resolver = "none"
    /\ item = NoItem
    /\ given = NilLB
    /\ loadBalancer = NilLB
    /\ err = NoErr

\* the end of an iteration that gave r on the entry under key k
EndIteration(k, r) ==
    /\ configurations' =
         IF recordsOn(r.out) THEN Put(configurations, k, r.conf)
         ELSE configurations
    /\ outcome' = Append(outcome, [out |-> r.out, err |-> r.err])
    /\ idx' = IF recordsOn(r.out) THEN idx + 1 ELSE continueLoop(idx)

\* an iteration that ends in `out`
LoopBody(out) ==
    /\ idx <= Len(items)
    /\ \E ordT \in OrdersTCP(items[idx]), ordH \in OrdersHTTP(items[idx]) :
         /\ iteration(items[idx], ordT, ordH).out = out
         /\ EndIteration(svcName(items[idx]), iteration(items[idx], ordT, ordH))
    /\ UNCHANGED <<Constraints, items, pc, mergeInput>>
    /\ UNCHANGED resolveVars

\* if !p.keepContainer(ctxSvc, item) { continue }
SkipFiltered ==
    /\ pc = "loop"
    /\ LoopBody("filtered")

\* label.DecodeConfiguration returns an error: log it, continue
SkipDecodeError ==
    /\ pc = "loop"
    /\ LoopBody("decode error")

\* buildTCPServiceConfiguration returns an error: log it, continue
SkipTCPError ==
    /\ pc = "loop"
    /\ LoopBody("tcp error")

\* the transport-layer section is complete and there is no application-layer
\* content: store the fragment, continue
RecordTCPOnly ==
    /\ pc = "loop"
    /\ LoopBody("tcp only")

\* buildServiceConfiguration returns an error: log it, continue
SkipHTTPError ==
    /\ pc = "loop"
    /\ LoopBody("http error")

\* both sections are complete: store the fragment
RecordFragment ==
    /\ pc = "loop"
    /\ LoopBody("recorded")

\* return provider.Merge(ctx, configurations)
MergeStep ==
    /\ pc = "loop"
    /\ idx > Len(items)
    /\ mergeInput' = Merge(configurations)
    /\ pc' = "merged"
    /\ UNCHANGED <<Constraints, items, idx, configurations, outcome>>
    /\ UNCHANGED resolveVars

Next ==
    \/ SkipFiltered
    \/ SkipDecodeError
    \/ SkipTCPError
    \/ RecordTCPOnly
    \/ SkipHTTPError
    \/ RecordFragment
    \/ MergeStep

Spec == Init /\ [][Next]_vars

----------------------------------------------------------------------------
(* The resolvers on their own                                              *)

InitResolve ==
    /\ resolver \in {"tcp", "http"}
    /\ item \in ResolveItems
    /\ given \in (IF resolver = "tcp" THEN TCPLBs ELSE LBs)
    /\ loadBalancer = given
    /\ err = NoErr
    /\ pc = "resolve"
    /\ Constraints = ExprNone
    /\ items = <<>>
    /\ idx = 1
    /\ configurations = EmptyMap
    /\ outcome = <<>>
    /\ mergeInput = EmptyMap

CallAddServerTCP ==
    /\ pc = "resolve"
    /\ resolver = "tcp"
    /\ LET r == addServerTCP(item, loadBalancer) IN
         /\ err' = r.err
         /\ loadBalancer' = r.lb
    /\ pc' = "returned"
    /\ UNCHANGED <<resolver, item, given>>
    /\ UNCHANGED batchVars

CallAddServer ==
    /\ pc = "resolve"
    /\ resolver = "http"
    /\ LET r == addServer(item, loadBalancer) IN
         /\ err' = r.err
         /\ loadBalancer' = r.lb
    /\ pc' = "returned"
    /\ UNCHANGED <<resolver, item, given>>
    /\ UNCHANGED batchVars

NextResolve ==
    \/ CallAddServerTCP
    \/ CallAddServer

SpecResolve == InitResolve /\ [][NextResolve]_vars

----------------------------------------------------------------------------
(* Claims about the resolvers (SpecResolve)                                *)

Returned == pc = "returned" /\ ~given.Nil

\* the port server slot 0 carried when the call was made
SlotPort == IF Len(given.Servers) > 0 THEN given.Servers[1].Port ELSE Empty

\* the scheme of slot 0 when the port is chosen (the default one for a load
\* balancer that had no server)
SlotScheme ==
    IF Len(given.Servers) > 0 THEN given.Servers[1].Scheme ELSE SchemeHTTP

\* C1 as stated: with an empty address both resolvers fail with the
\* missing-address condition, whatever the entry's port and slot 0 hold.
C1_AddressMissingAnyPort ==
    (Returned /\ item.Address = Empty) => err = ErrAddr

\* C1 amended: with an empty address both resolvers fail; the condition is
\* missing-address when a port was chosen (the entry's port is not empty, or,
\* for addServer, slot 0 carries one) and missing-port when none was, since
\* the port is checked first.
C1_AddressMissingAfterPort ==
    (Returned /\ item.Address = Empty) =>
        LET chosen == item.Port # Empty \/ (resolver = "http" /\ SlotPort # Empty)
        IN  /\ err \in {ErrPort, ErrAddr}
            /\ chosen => err = ErrAddr
            /\ ~chosen => err = ErrPort

C1_Witness ==
    /\ Returned
    /\ resolver = "tcp"
    /\ item.Address = Empty
    /\ item.Port = P80
    /\ SlotPort = P90
    /\ err = ErrAddr

\* C2: both resolvers choose the entry's port when it is not empty and the
\* port of server slot 0 otherwise, and fail with the missing-port condition
\* only when both are empty.
C2_SamePortSelection ==
    (Returned /\ item.Address # Empty) =>
        LET port == IF item.Port # Empty THEN item.Port ELSE SlotPort
        IN  /\ port = Empty => err = ErrPort
            /\ port # Empty =>
                 /\ err = NoErr
                 /\ resolver = "tcp" =>
                      loadBalancer.Servers[1].Address =
                          JoinHostPort(item.Address, port)
                 /\ resolver = "http" =>
                      loadBalancer.Servers[1].URL =
                          SprintfURL(SlotScheme, JoinHostPort(item.Address, port))

\* C3: after a successful resolve the port field of slot 0 is empty, whichever
\* source the port came from; for addServer the scheme field is empty too and
\* the connection string is scheme://host:port.
C3_PortFieldCleared ==
    (Returned /\ err = NoErr) =>
        /\ loadBalancer.Servers[1].Port = Empty
        /\ resolver = "http" =>
             /\ loadBalancer.Servers[1].Scheme = Empty
             /\ loadBalancer.Servers[1].URL =
                    SprintfURL(SlotScheme,
                               JoinHostPort(item.Address,
                                            IF item.Port # Empty THEN item.Port
                                            ELSE SlotPort))

----------------------------------------------------------------------------
(* Claims about buildConfiguration (Spec)                                  *)

Visited == 1..Len(outcome)
Last == Len(outcome)
Key(i) == svcName(items[i])
Decoded(it) == DecodeConfiguration(it.Labels)

\* the three conditions of the eligibility filter, one by one
Enabled(it) == it.ExtraConf.Enable
TagsMatch(it) ==
    LET m == MatchTags(it.Tags, Constraints) IN m.err = NoErr /\ m.matches
Healthy(it) == it.Status \in {HealthPassing, HealthWarning}
Eligible(it) == Enabled(it) /\ TagsMatch(it) /\ Healthy(it)

\* the iteration on entry it, in some order of the services (the orders
\* differ in the error reported, never in success or in the fragment built)
Built(it) ==
    iteration(it, CHOOSE o \in OrdersTCP(it) : TRUE,
                  CHOOSE o \in OrdersHTTP(it) : TRUE)
Succeeds(it) == Built(it).out \in {"tcp only", "recorded"}

\* the entry visited last has stored a fragment
JustRecorded ==
    /\ pc = "loop"
    /\ Last >= 1
    /\ outcome[Last].out \in {"tcp only", "recorded"}
    /\ Key(Last) \in DOMAIN configurations
Fragment == configurations[Key(Last)]

\* the last entry with the key of entry i that builds its fragment
LastWithKey(i) ==
    CHOOSE j \in 1..Len(items) :
        /\ Key(j) = Key(i)
        /\ Succeeds(items[j])
        /\ \A k \in 1..Len(items) :
              (Key(k) = Key(i) /\ Succeeds(items[k])) => k <= j

\* C4: no outcome is fatal to the batch.  The loop visits the entries one by
\* one, leaving none out; the merge happens after every entry was visited; and
\* every entry that is eligible, decodes and completes has its fragment under
\* its key in the mapping handed to the merge step, whatever the other
\* entries did (with several such entries under one key, the last one's).
C4_NoBatchFatal ==
    /\ pc = "loop" => (idx = Len(outcome) + 1 /\ idx <= Len(items) + 1)
    /\ pc = "merged" =>
         /\ Len(outcome) = Len(items)
         /\ \A i \in 1..Len(items) :
              Succeeds(items[i]) =>
                 /\ Key(i) \in DOMAIN mergeInput
                 /\ mergeInput[Key(i)] = Built(items[LastWithKey(i)]).conf

C4_Witness ==
    /\ pc = "merged"
    /\ Len(items) = 2
    /\ ~Succeeds(items[1])
    /\ Eligible(items[1])
    /\ Succeeds(items[2])
    /\ Key(1) = Key(2)
    /\ mergeInput[Key(2)] = Built(items[2]).conf

\* C5: only an entry that is enabled, whose tags match the constraints
\* without a matcher error and whose status is passing or warning stores a
\* fragment; every key of the mapping comes from such an entry; a critical
\* entry never stores one, and the filter lets a warning entry through.
C5_OnlyEligibleContribute ==
    /\ \A i \in Visited :
         /\ outcome[i].out \in {"tcp only", "recorded"} => Eligible(items[i])
         /\ items[i].Status = HealthCritical => outcome[i].out = "filtered"
         /\ (Enabled(items[i]) /\ TagsMatch(items[i])
               /\ items[i].Status = HealthWarning) => outcome[i].out # "filtered"
         /\ ~Eligible(items[i]) => outcome[i].out = "filtered"
    /\ \A k \in DOMAIN configurations :
         \E i \in Visited : Key(i) = k /\ Eligible(items[i])

C5_Witness ==
    /\ pc = "merged"
    /\ Len(items) = 2
    /\ items[1].Status = HealthCritical
    /\ Enabled(items[1]) /\ TagsMatch(items[1])
    /\ Key(1) \notin DOMAIN mergeInput
    /\ items[2].Status = HealthWarning
    /\ Key(2) \in DOMAIN mergeInput

\* C6: two entries of a batch that both build their fragment and differ in
\* node, service name or instance id have different keys, and the mapping
\* handed to the merge step holds the fragment of each under its key.
C6_KeysUnique ==
    pc = "merged" =>
        \A i, j \in 1..Len(items) :
            (/\ Succeeds(items[i])
             /\ Succeeds(items[j])
             /\ <<items[i].Node, items[i].Name, items[i].ID>> #
                    <<items[j].Node, items[j].Name, items[j].ID>>) =>
                /\ Key(i) # Key(j)
                /\ Key(i) \in DOMAIN mergeInput
                /\ Key(j) \in DOMAIN mergeInput
                /\ mergeInput[Key(i)] = Built(items[i]).conf
                /\ mergeInput[Key(j)] = Built(items[j]).conf

\* the decoded fragment of entry it has transport-layer routers or services
\* and nothing in its application-layer section
TCPOnlyDecoded(it) ==
    /\ Decoded(it).err = NoErr
    /\ \/ DOMAIN Decoded(it).conf.TCP.Routers # {}
       \/ DOMAIN Decoded(it).conf.TCP.Services # {}
    /\ DOMAIN Decoded(it).conf.HTTP.Routers = {}
    /\ Decoded(it).conf.HTTP.Middlewares = {}
    /\ DOMAIN Decoded(it).conf.HTTP.Services = {}

\* C7: the fragment stored for an eligible entry whose decoded fragment is
\* transport-layer only has an empty application-layer section: no default
\* HTTP service and no router have been added.
C7_TCPOnlyStaysTCPOnly ==
    \A i \in Visited :
        (Eligible(items[i]) /\ TCPOnlyDecoded(items[i])) =>
            /\ outcome[i].out \in {"tcp only", "tcp error"}
            /\ (i = Last /\ outcome[i].out = "tcp only") =>
                 /\ Key(i) \in DOMAIN configurations
                 /\ DOMAIN configurations[Key(i)].HTTP.Routers = {}
                 /\ configurations[Key(i)].HTTP.Middlewares = {}
                 /\ DOMAIN configurations[Key(i)].HTTP.Services = {}

C7_Witness ==
    /\ JustRecorded
    /\ TCPOnlyDecoded(items[Last])
    /\ DOMAIN Fragment.TCP.Services # {}
    /\ DOMAIN Fragment.HTTP.Services = {}

\* the labels of entry it declare no transport-layer router or service and no
\* application-layer service
NoServiceDeclared(it) ==
    /\ Decoded(it).err = NoErr
    /\ DOMAIN Decoded(it).conf.TCP.Routers = {}
    /\ DOMAIN Decoded(it).conf.TCP.Services = {}
    /\ DOMAIN Decoded(it).conf.HTTP.Services = {}

\* C8: an eligible entry with an address and a port whose labels declare no
\* router and no service stores, under node-name-id, a fragment with exactly
\* one application-layer service, named after the entry's service name, whose
\* load balancer has exactly one server, with the URL http://host:port (host
\* being the address, in brackets when it has a colon).
C8_DefaultService ==
    (/\ pc = "loop"
     /\ Last >= 1
     /\ Eligible(items[Last])
     /\ items[Last].Address # Empty
     /\ items[Last].Port # Empty
     /\ NoServiceDeclared(items[Last])) =>
        LET it == items[Last]
            k == it.Node \o <<"-">> \o it.Name \o <<"-">> \o it.ID
        IN  /\ outcome[Last].out = "recorded"
            /\ k \in DOMAIN configurations
            /\ DOMAIN configurations[k].HTTP.Services = {it.Name}
            /\ DOMAIN configurations[k].TCP.Services = {}
            /\ LET lb == configurations[k].HTTP.Services[it.Name].LoadBalancer
               IN  /\ ~lb.Nil
                   /\ Len(lb.Servers) = 1
                   /\ lb.Servers[1].URL =
                          <<"h", "t", "t", "p", ":", "/", "/">>
                              \o JoinHostPort(it.Address, it.Port)

C8_Witness ==
    /\ JustRecorded
    /\ NoServiceDeclared(items[Last])
    /\ Key(Last) = <<"n", "-", "s", "-", "i">>
    /\ DOMAIN Fragment.HTTP.Services = {<<"s">>}
    /\ Fragment.HTTP.Services[<<"s">>].LoadBalancer.Servers
          = <<[URL |-> <<"h", "t", "t", "p", ":", "/", "/", "h", ":", "8", "0">>,
               Scheme |-> <<>>, Port |-> <<>>]>>

\* the errors an eligible entry runs into, from the resolvers themselves
DecodeFails(it) == Decoded(it).err # NoErr
TCPCompleted(it) ==
    /\ ~DecodeFails(it)
    /\ hasTCP(Decoded(it).conf)
TCPFails(it) ==
    /\ TCPCompleted(it)
    /\ \E n \in DOMAIN TCPServicesOf(it, Decoded(it).conf.TCP) :
          addServerTCP(it, TCPServicesOf(it, Decoded(it).conf.TCP)[n].LoadBalancer).err
              # NoErr
HTTPFails(it) ==
    /\ ~DecodeFails(it)
    /\ ~TCPFails(it)
    /\ ~TCPOnlyDecoded(it)
    /\ \E n \in DOMAIN ServicesOf(it, Decoded(it).conf.HTTP) :
          addServer(it, ServicesOf(it, Decoded(it).conf.HTTP)[n].LoadBalancer).err
              # NoErr
ErrorIn(it) == Eligible(it) /\ (DecodeFails(it) \/ TCPFails(it) \/ HTTPFails(it))

\* C9: an entry for which the decoder or one of the two completers returns an
\* error stores nothing: its iteration ends in that error, and its key is in
\* the mapping only if another visited entry of the same key has built its
\* fragment - also when its transport-layer section had been completed
\* before the application-layer completion failed.
C9_AllOrNothing ==
    \A i \in Visited :
        ErrorIn(items[i]) =>
            /\ outcome[i].out \in {"decode error", "tcp error", "http error"}
            /\ outcome[i].err # NoErr
            /\ (\A j \in Visited : Key(j) = Key(i) => ~Succeeds(items[j]))
                   => Key(i) \notin DOMAIN configurations

C9_Witness ==
    /\ pc = "loop"
    /\ Last >= 1
    /\ Eligible(items[Last])
    /\ TCPCompleted(items[Last])
    /\ ~TCPFails(items[Last])
    /\ HTTPFails(items[Last])
    /\ outcome[Last].out = "http error"
    /\ Key(Last) \notin DOMAIN configurations

\* server slot 0 of service n as the labels of entry it declare it (the
\* default server when they declare none)
DeclaredSlot(it, n) ==
    LET declared == Decoded(it).conf.HTTP.Services
    IN  IF n \in DOMAIN declared /\ Len(declared[n].LoadBalancer.Servers) > 0
        THEN declared[n].LoadBalancer.Servers[1]
        ELSE ServerDefaults

\* C10: in a stored fragment every service of either section - the default
\* one or each declared one - has a load balancer with a server slot 0 whose
\* connection string joins the entry's address and the chosen port (the
\* entry's, else the declared slot's); no declared service is dropped or left
\* unresolved.
C10_EveryServiceResolved ==
    JustRecorded =>
        LET it == items[Last] IN
        /\ DOMAIN Decoded(it).conf.TCP.Services \subseteq DOMAIN Fragment.TCP.Services
        /\ DOMAIN Decoded(it).conf.HTTP.Services \subseteq DOMAIN Fragment.HTTP.Services
        /\ \A n \in DOMAIN Fragment.TCP.Services :
             LET lb == Fragment.TCP.Services[n].LoadBalancer IN
               /\ ~lb.Nil
               /\ Len(lb.Servers) >= 1
               /\ it.Address # Empty /\ it.Port # Empty
               /\ lb.Servers[1].Address = JoinHostPort(it.Address, it.Port)
        /\ \A n \in DOMAIN Fragment.HTTP.Services :
             LET lb == Fragment.HTTP.Services[n].LoadBalancer
                 port == IF it.Port # Empty THEN it.Port
                         ELSE DeclaredSlot(it, n).Port
             IN
               /\ ~lb.Nil
               /\ Len(lb.Servers) >= 1
               /\ it.Address # Empty /\ port # Empty
               /\ lb.Servers[1].URL =
                      DeclaredSlot(it, n).Scheme \o <<":", "/", "/">>
                          \o JoinHostPort(it.Address, port)

C10_Witness ==
    /\ JustRecorded
    /\ DOMAIN Fragment.HTTP.Services = {NameA, NameB}
    /\ DOMAIN Fragment.TCP.Services = {NameT}
    /\ Fragment.HTTP.Services[NameB].LoadBalancer.Servers[1].URL
          = <<"h", "t", "t", "p", "s", ":", "/", "/", "[", ":", ":", "1", "]",
              ":", "8", "0">>

====
